---- MODULE Spec2Model ----
(***************************************************************************)
(* convex-sveltekit: the live-query views (convexQuery, createDetachedQuery)*)
(* the SSR transport bridge (convexLoad, encodeConvexLoad, decodeConvexLoad)*)
(* and the user transport (decodeConvexUser), as state machines.           *)
(*                                                                         *)
(* One behaviour follows one call site: `kind` says which constructor ran. *)
(*   "query"    a convexQuery view inside a component                      *)
(*   "detached" the views made by createDetachedQuery (transport decode of *)
(*              one envelope at two sites, or client-side convexLoad)      *)
(*   "user"     the reactive user made by decodeConvexUser                 *)
(*   "encode"   the server handing one load value to the transport hooks   *)
(*   "command"  a convexCommand and the calls made through it              *)
(*   "form"     one convexForm instance, its attachments and submits       *)
(*   "client"   the module-level singleton of client.svelte.ts             *)
(*   "server"   serverQuery/serverMutation/serverAction and convexLoad in  *)
(*              concurrent requests on the server                          *)
(*   "auth"     the Better Auth bridge made by setupConvexAuth             *)
(*   "registry" the keyed instances of convexForm(...).for(id)             *)
(***************************************************************************)
EXTENDS Integers, Sequences, FiniteSets, TLC

VARIABLES
    kind,            \* which constructor this behaviour follows
    disabled,        \* client.disabled of the ConvexClient singleton
    \* ---- convexQuery
    args,            \* current value of the caller's args (value or thunk result)
    initialArgs,     \* const initialArgs = parseArgs(args)
    options,         \* [initialData, keepPreviousData]
    state,           \* the $state object of convexQuery
    sub,             \* args of the active client.onUpdate subscription, or NoSub
    dirty,           \* effects scheduled and not yet run
    tokens,          \* a withOverride() release token has been handed out
    localResult,     \* client.client.localQueryResult(name, currentArgs)
    channel,         \* the client's live onUpdate listeners for this query
    unsub,           \* serial of the listener the effect's disposer closes, 0 if none
    destroyed,       \* the component owning the view has been torn down
    peerData,        \* last result delivered to a second view of the same query
    \* ---- createDetachedQuery
    origin,          \* "decode" (transport.decode), "load" (convexLoad in browser), "direct"
    loadResult,      \* the value handed to transport.encode on the server
    envelope,        \* what the transport's encode hooks returned for it
    detached,        \* per site: the $state cells of one createDetachedQuery view
    \* ---- decodeConvexUser
    seed,            \* encoded.data
    current,         \* let current = $state(seed)
    userSub,         \* the client.onUpdate subscription was opened
    preloads,        \* Images created by pushes whose onload/onerror has not fired
    lastEvent,       \* the callback of decodeConvexUser that ran last
    lastPush,        \* the most recent non-null result the channel pushed
    \* ---- convexCommand
    command,         \* pendingCount and the calls made through one command
    \* ---- convexForm
    form,            \* the cells of one form instance and its submits
    \* ---- client.svelte.ts
    _client,         \* let _client: ConvexClient | null
    _url,            \* let _url: string | null
    mounted,         \* components that called setupConvex and are still alive
    returned,        \* what the last call into the module returned or threw
    \* ---- server.ts and convexLoad on the server
    _httpClient,     \* per module: its ConvexHttpClient singleton
    requests,        \* per request: the call it is making and how far it got
    \* ---- setupConvexAuth
    auth,            \* the cells of setupConvexAuth and the client's auth
    \* ---- convexForm(...).for(id)
    registry         \* the instances map, its entries and the components using them

vars == <<kind, disabled, args, initialArgs, options, state, sub, dirty,
          tokens, localResult, channel, unsub, destroyed, peerData, origin, loadResult, envelope, detached, seed, current,
          userSub, preloads, lastEvent, lastPush, command, form, _client, _url, mounted,
          returned, _httpClient, requests, auth, registry>>

scopeVars == <<channel, unsub, destroyed, peerData>>
queryVars == <<args, initialArgs, options, state, sub, dirty, tokens, localResult,
               channel, unsub, destroyed, peerData>>
detachedVars == <<origin, loadResult, envelope, detached>>
userVars == <<seed, current, userSub, preloads, lastEvent, lastPush>>
clientVars == <<_client, _url, mounted, returned>>
serverVars == <<_httpClient, requests>>
appVars == <<command, form, clientVars, serverVars, auth, registry>>
viewVars == <<disabled, queryVars, detachedVars, userVars>>

(***************************************************************************)
(* Bounds                                                                  *)
(***************************************************************************)
MaxVal == 2          \* query results are 0..MaxVal (0 is a falsy result)
NumArgs == 2         \* distinct non-skip argument sets
MaxPreloads == 2     \* image preloads in flight at once

(***************************************************************************)
(* Values                                                                  *)
(***************************************************************************)
Undef == [tag |-> "undefined", val |-> 0, detail |-> FALSE]
Ok(n) == [tag |-> "ok", val |-> n, detail |-> FALSE]
\* An Error with message n; detail says it carries own properties beyond
\* name/message (a ConvexError with data).
Err(n, d) == [tag |-> "error", val |-> n, detail |-> d]

OkValues == {Ok(n) : n \in 0..MaxVal}
\* what the channel delivers as errors: a ConvexError carrying data
Errors == {Err(1, TRUE)}
Results == OkValues \cup Errors

instanceofError(x) == x.tag = "error"
\* JS truthiness of a result: undefined and the falsy result 0 are falsy.
truthy(x) == x.tag = "error" \/ (x.tag = "ok" /\ x.val # 0)

\* structuredClone keeps a value's content; of an Error it keeps name and
\* message and drops every other own property.
structuredClone(x) == IF x.tag = "error" THEN Err(x.val, FALSE) ELSE x

SKIP == [t |-> "skip", id |-> 0]
NoArgs == [t |-> "undefined", id |-> 0]
NoSub == [t |-> "none", id |-> 0]
ArgsOf(n) == [t |-> "args", id |-> n]
ArgsSet == {ArgsOf(n) : n \in 1..NumArgs}

convexToJson(a) == <<"id", a.id>>
jsonEqualArgs(a, b) == convexToJson(a) = convexToJson(b)
argsKeyEqual(a, b) ==
    IF a = SKIP /\ b = SKIP THEN TRUE
    ELSE IF a = SKIP \/ b = SKIP THEN FALSE
    ELSE jsonEqualArgs(a, b)

\* the update functions callers pass to withOverride()
Updates == {"inc", "keep"}
update(f, cur) == IF f = "inc" THEN Ok((cur.val + 1) % (MaxVal + 1)) ELSE cur

(***************************************************************************)
(* convexQuery: derived values and getters                                 *)
(***************************************************************************)
currentArgs == args
isSkipped == currentArgs = SKIP

sameArgsAsLastResult ==
    /\ state.argsForLastResult # NoArgs
    /\ currentArgs # SKIP
    /\ state.argsForLastResult # SKIP
    /\ jsonEqualArgs(state.argsForLastResult, currentArgs)

staleAllowed == options.keepPreviousData /\ truthy(state.lastResult)

syncResult ==
    IF isSkipped THEN Undef
    ELSE IF truthy(options.initialData) /\ ~state.haveArgsEverChanged THEN state.result
    ELSE IF disabled THEN Undef
    ELSE localResult

resolvedResult ==
    IF state.hasManualOverride THEN state.manualOverride
    ELSE IF syncResult # Undef THEN syncResult
    ELSE IF staleAllowed THEN state.lastResult
    ELSE Undef

isStale ==
    /\ ~isSkipped
    /\ syncResult = Undef
    /\ staleAllowed
    /\ ~sameArgsAsLastResult
    /\ resolvedResult # Undef

data == IF instanceofError(resolvedResult) THEN Undef ELSE resolvedResult
error == IF instanceofError(resolvedResult) THEN resolvedResult ELSE Undef

get_data == data
get_error == error
get_isLoading == IF isSkipped THEN FALSE ELSE error = Undef /\ data = Undef
get_isStale == IF isSkipped THEN FALSE ELSE isStale
get_loading == IF isSkipped THEN FALSE ELSE error = Undef /\ data = Undef

(***************************************************************************)
(* convexQuery: construction                                               *)
(***************************************************************************)
\* state.refreshCounter is left out: the code never reads its value, it only
\* touches it so that refresh() re-runs the subscription effect (dirty).
NoState ==
    [result |-> Undef, lastResult |-> Undef, argsForLastResult |-> NoArgs,
     haveArgsEverChanged |-> FALSE, manualOverride |-> Undef,
     hasManualOverride |-> FALSE]

NoOptions == [initialData |-> Undef, keepPreviousData |-> FALSE]

InitQueryIdle ==
    /\ args = SKIP
    /\ initialArgs = SKIP
    /\ options = NoOptions
    /\ state = NoState
    /\ sub = NoSub
    /\ dirty = FALSE
    /\ tokens = FALSE
    /\ localResult = Undef
    /\ channel = {}
    /\ unsub = 0
    /\ destroyed = FALSE
    /\ peerData = Undef

\* convexQuery(query, args, options): the $state object is built, the effects
\* are scheduled (they run once the component has mounted).
convexQuery ==
    /\ kind = "query"
    /\ args \in {ArgsOf(1), SKIP}
    /\ initialArgs = args
    /\ options \in [initialData : {Undef, Ok(0), Ok(1)}, keepPreviousData : BOOLEAN]
    /\ state = [NoState EXCEPT !.result = options.initialData]
    /\ sub = NoSub
    /\ dirty = TRUE
    /\ tokens = FALSE
    /\ localResult = Undef
    /\ channel = {}
    /\ unsub = 0
    /\ destroyed = FALSE
    /\ peerData = Undef


(***************************************************************************)
(* convexQuery: effects, channel callbacks, methods                        *)
(***************************************************************************)
\* $effect #1 (subscription): the skip branch writes the state, the other
\* branch only subscribes.
subscriptionEffect(s) ==
    IF args = SKIP
    THEN [s EXCEPT !.result = Undef, !.argsForLastResult = SKIP]
    ELSE s

\* mutant of subscriptionAfterEffect: the skip branch does not return early
subscriptionAfterEffect_IgnoresSkip ==
    IF disabled THEN NoSub ELSE args

\* what client.onUpdate leaves subscribed after effect #1 has re-run
subscriptionAfterEffect ==
    IF args = SKIP \/ disabled THEN NoSub ELSE args

\* One client.onUpdate listener: who registered it, for which args, and the
\* serial that tells it from the other listeners of the same owner.
Listener(owner, a, n) == [owner |-> owner, id |-> a.id, serial |-> n]
ViewSubs == {s \in channel : s.owner = "view"}
\* a second convexQuery view of the same query, with the first argument set
PeerSub == Listener("peer", ArgsOf(1), 0)

\* client.onUpdate registers a new listener on every call
nextSerial == IF unsub = 1 THEN 2 ELSE 1

\* mutant of unsubscribe: the effect does not return the disposer
unsubscribe_Leaks(ch) == ch

\* `return unsubscribe`: the disposer of the listener the effect registered
\* on its last run, called before the effect re-runs and at teardown
unsubscribe(ch) == {s \in ch : ~(s.owner = "view" /\ s.serial = unsub)}

\* $effect #2 (track args changes to stop using initialData)
argsChangeEffect(s) ==
    IF ~s.haveArgsEverChanged /\ ~argsKeyEqual(initialArgs, args)
    THEN IF options.initialData # Undef
         THEN [s EXCEPT !.haveArgsEverChanged = TRUE,
                        !.argsForLastResult = initialArgs,
                        !.lastResult = options.initialData]
         ELSE [s EXCEPT !.haveArgsEverChanged = TRUE]
    ELSE s

\* mutant of onData: server data arrives but the override is left installed
onData_KeepsOverride(s, dataFromServer, argsObject) ==
    [s EXCEPT !.result = structuredClone(dataFromServer),
              !.argsForLastResult = argsObject,
              !.lastResult = structuredClone(dataFromServer)]

\* the onUpdate success callback of convexQuery
onData(s, dataFromServer, argsObject) ==
    [s EXCEPT !.result = structuredClone(dataFromServer),
              !.argsForLastResult = argsObject,
              !.lastResult = structuredClone(dataFromServer),
              !.hasManualOverride = FALSE]

\* the onUpdate error callback of convexQuery
onError(s, e, argsObject) ==
    [s EXCEPT !.result = e,
              !.argsForLastResult = argsObject,
              !.lastResult = structuredClone(e),
              !.hasManualOverride = FALSE]

\* mutant of RunEffects: a re-run with unchanged args keeps the listener
RunEffects_KeepsSameArgs ==
    /\ kind = "query"
    /\ dirty
    /\ ~destroyed
    /\ state' = argsChangeEffect(subscriptionEffect(state))
    /\ sub' = subscriptionAfterEffect
    /\ IF sub # NoSub /\ sub = subscriptionAfterEffect
       THEN UNCHANGED <<unsub, channel>>
       ELSE /\ unsub' = IF subscriptionAfterEffect = NoSub THEN 0 ELSE nextSerial
            /\ channel' = unsubscribe(channel) \cup
                   (IF subscriptionAfterEffect = NoSub THEN {}
                    ELSE {Listener("view", subscriptionAfterEffect, nextSerial)})
    /\ dirty' = FALSE
    /\ UNCHANGED <<kind, disabled, args, initialArgs, options, tokens, localResult>>
    /\ UNCHANGED <<destroyed, peerData>>
    /\ UNCHANGED <<detachedVars, userVars, appVars>>

\* The scheduled effects run, in creation order.  The subscription effect's
\* previous disposer runs first, then its body registers the new listener.
RunEffects ==
    /\ kind = "query"
    /\ dirty
    /\ ~destroyed
    /\ state' = argsChangeEffect(subscriptionEffect(state))
    /\ sub' = subscriptionAfterEffect
    /\ unsub' = IF subscriptionAfterEffect = NoSub THEN 0 ELSE nextSerial
    /\ channel' = unsubscribe(channel) \cup
           (IF subscriptionAfterEffect = NoSub THEN {}
            ELSE {Listener("view", subscriptionAfterEffect, nextSerial)})
    /\ dirty' = FALSE
    /\ UNCHANGED <<kind, disabled, args, initialArgs, options, tokens, localResult>>
    /\ UNCHANGED <<destroyed, peerData>>
    /\ UNCHANGED <<detachedVars, userVars, appVars>>

\* What the client may hold as the local result of args this view was not
\* subscribed to (kept from an earlier subscription, or by another view):
\* nothing, a value, an error.
HeldResults == {Undef, Ok(1)} \cup Errors

\* The caller's args (a thunk over reactive state) take a new value; held is
\* the client's local result for them.
ChangeArgs(a, held) ==
    /\ kind = "query"
    /\ a # args
    /\ args' = a
    \* skip and a disabled client have no local result, a listening second
    \* view determines it; held is left to choose in the other cases only
    /\ (a = SKIP \/ disabled \/ (a = ArgsOf(1) /\ PeerSub \in channel)) => held = Undef
    /\ localResult' = IF a = SKIP \/ disabled THEN Undef
                      ELSE IF a = ArgsOf(1) /\ PeerSub \in channel THEN peerData
                      ELSE held
    /\ dirty' = TRUE
    /\ UNCHANGED <<kind, disabled, initialArgs, options, state, sub, tokens>>
    /\ UNCHANGED scopeVars
    /\ UNCHANGED <<detachedVars, userVars, appVars>>

\* The channel delivers a value for the subscribed args: the client stores it
\* as the local query result and calls the success callback.
QueryData(v) ==
    /\ kind = "query"
    /\ ~dirty
    /\ sub # NoSub
    /\ Listener("view", sub, unsub) \in channel
    /\ localResult' = v
    /\ state' = onData(state, v, sub)
    /\ peerData' = IF PeerSub \in channel /\ sub = ArgsOf(1) THEN v ELSE peerData
    /\ UNCHANGED <<kind, disabled, args, initialArgs, options, sub, dirty, tokens>>
    /\ UNCHANGED <<channel, unsub, destroyed>>
    /\ UNCHANGED <<detachedVars, userVars, appVars>>

\* The channel delivers an error for the subscribed args.
QueryError(e) ==
    /\ kind = "query"
    /\ ~dirty
    /\ sub # NoSub
    /\ Listener("view", sub, unsub) \in channel
    /\ localResult' = e
    /\ state' = onError(state, e, sub)
    /\ peerData' = IF PeerSub \in channel /\ sub = ArgsOf(1) THEN e ELSE peerData
    /\ UNCHANGED <<kind, disabled, args, initialArgs, options, sub, dirty, tokens>>
    /\ UNCHANGED <<channel, unsub, destroyed>>
    /\ UNCHANGED <<detachedVars, userVars, appVars>>

set(s, value) == [s EXCEPT !.manualOverride = value, !.hasManualOverride = TRUE]

QuerySet(value) ==
    /\ kind = "query"
    /\ state' = set(state, value)
    /\ UNCHANGED <<kind, disabled, args, initialArgs, options, sub, dirty, tokens, localResult>>
    /\ UNCHANGED scopeVars
    /\ UNCHANGED <<detachedVars, userVars, appVars>>

withOverride(s, f, currentData) ==
    IF currentData # Undef
    THEN [s EXCEPT !.manualOverride = update(f, currentData), !.hasManualOverride = TRUE]
    ELSE s

QueryWithOverride(f) ==
    /\ kind = "query"
    /\ state' = withOverride(state, f, data)
    /\ tokens' = TRUE
    /\ UNCHANGED <<kind, disabled, args, initialArgs, options, sub, dirty, localResult>>
    /\ UNCHANGED scopeVars
    /\ UNCHANGED <<detachedVars, userVars, appVars>>

release(s) == [s EXCEPT !.hasManualOverride = FALSE]

QueryRelease ==
    /\ kind = "query"
    /\ tokens
    /\ state' = release(state)
    /\ UNCHANGED <<kind, disabled, args, initialArgs, options, sub, dirty, tokens, localResult>>
    /\ UNCHANGED scopeVars
    /\ UNCHANGED <<detachedVars, userVars, appVars>>

\* refresh(): state.refreshCounter++ schedules the subscription effect again.
QueryRefresh ==
    /\ kind = "query"
    /\ dirty' = TRUE
    /\ UNCHANGED <<kind, disabled, args, initialArgs, options, state, sub, tokens, localResult>>
    /\ UNCHANGED scopeVars
    /\ UNCHANGED <<detachedVars, userVars, appVars>>

\* mutant of Teardown: the scope goes away without running the disposer
Teardown_KeepsSubscription ==
    /\ kind = "query"
    /\ ~destroyed
    /\ destroyed' = TRUE
    /\ dirty' = FALSE
    /\ UNCHANGED <<kind, disabled, args, initialArgs, options, state, tokens, localResult>>
    /\ UNCHANGED <<channel, sub, unsub, peerData>>
    /\ UNCHANGED <<detachedVars, userVars, appVars>>

\* The component owning the view is destroyed: the effects are destroyed with
\* it, a pending re-run is dropped and the subscription effect's disposer runs.
Teardown ==
    /\ kind = "query"
    /\ ~destroyed
    /\ channel' = unsubscribe(channel)
    /\ sub' = NoSub
    /\ unsub' = 0
    /\ destroyed' = TRUE
    /\ dirty' = FALSE
    /\ UNCHANGED <<kind, disabled, args, initialArgs, options, state, tokens, localResult>>
    /\ UNCHANGED peerData
    /\ UNCHANGED <<detachedVars, userVars, appVars>>

\* A second view subscribes to the same query with the first argument set.
PeerSubscribe ==
    /\ kind = "query"
    /\ ~disabled
    /\ PeerSub \notin channel
    /\ channel' = channel \cup {PeerSub}
    /\ peerData' = Undef
    /\ UNCHANGED <<kind, disabled, args, initialArgs, options, state, sub, dirty, tokens,
                   localResult, unsub, destroyed>>
    /\ UNCHANGED <<detachedVars, userVars, appVars>>

\* The second view's scope is torn down: its own disposer runs.
PeerTeardown ==
    /\ kind = "query"
    /\ PeerSub \in channel
    /\ channel' = channel \ {PeerSub}
    /\ peerData' = Undef
    /\ UNCHANGED <<kind, disabled, args, initialArgs, options, state, sub, dirty, tokens,
                   localResult, unsub, destroyed>>
    /\ UNCHANGED <<detachedVars, userVars, appVars>>

\* The channel delivers a value for the first argument set while only the
\* second view listens for it (when both listen the delivery is QueryData).
PeerData(v) ==
    /\ kind = "query"
    /\ PeerSub \in channel
    /\ \A s \in ViewSubs : s.id # PeerSub.id
    /\ peerData' = v
    /\ localResult' = IF args = ArgsOf(1) THEN v ELSE localResult
    /\ UNCHANGED <<kind, disabled, args, initialArgs, options, state, sub, dirty, tokens,
                   channel, unsub, destroyed>>
    /\ UNCHANGED <<detachedVars, userVars, appVars>>

NextQuery ==
    \/ RunEffects
    \/ \E a \in ArgsSet \cup {SKIP}, held \in HeldResults : ChangeArgs(a, held)
    \/ \E v \in OkValues : QueryData(v)
    \/ \E e \in Errors : QueryError(e)
    \/ \E v \in OkValues : QuerySet(v)
    \/ \E f \in Updates : QueryWithOverride(f)
    \/ QueryRelease
    \/ QueryRefresh


(***************************************************************************)
(* SSR bridge: ConvexLoadResult, encodeConvexLoad, decodeConvexLoad        *)
(***************************************************************************)
\* the (function, args) pairs the load functions ask for
Loads == {<<"tasks:get", ArgsOf(1)>>, <<"users:get", ArgsOf(2)>>, <<"gone:get", ArgsOf(1)>>}
\* the functions the client's deployment has; an envelope written for
\* another deployment can name one that is not among them
KnownRefs == {"tasks:get", "users:get"}

\* new ConvexLoadResult(refName, args, data): cls is the class identity the
\* instanceof test looks at, __convexLoad the marker field.
ConvexLoadResult(refName, a, d) ==
    [cls |-> "ConvexLoadResult", __convexLoad |-> TRUE,
     refName |-> refName, args |-> a, data |-> d]

NotHandled == [handled |-> FALSE]
\* the hook has not been called
Pending == [pending |-> TRUE]
NotEncoded == [load |-> Pending, user |-> Pending]

encodeConvexLoad(value) ==
    IF value.cls = "ConvexLoadResult"
    THEN [refName |-> value.refName, args |-> value.args, data |-> value.data]
    ELSE NotHandled

makeFunctionReference(name) == [functionName |-> name]
getFunctionName(ref) == ref.functionName

(***************************************************************************)
(* createDetachedQuery                                                     *)
(***************************************************************************)
\* The two places that decode the same envelope / call convexLoad.
Sites == {"first", "second"}

NoDetached ==
    [made |-> FALSE, data |-> Undef, error |-> Undef, manualOverride |-> Undef,
     hasManualOverride |-> FALSE, sub |-> NoSub, initialData |-> Undef,
     called |-> FALSE, token |-> FALSE]

subscription(name, a) == [t |-> "sub", id |-> a.id, name |-> name]

\* mutant of createDetachedQuery: subscribes without looking at client.disabled
createDetachedQuery_AlwaysSubscribes(query, a, initialData) ==
    [made |-> TRUE, data |-> initialData, error |-> Undef, manualOverride |-> Undef,
     hasManualOverride |-> FALSE,
     sub |-> subscription(getFunctionName(query), a),
     initialData |-> initialData, called |-> FALSE, token |-> FALSE]

\* createDetachedQuery(query, args, initialData): the cells, and the one
\* client.onUpdate call unless the client is disabled.  `called` records that
\* a channel callback has reached this view, `token` that withOverride()
\* has handed out a release token.
createDetachedQuery(query, a, initialData) ==
    [made |-> TRUE, data |-> initialData, error |-> Undef, manualOverride |-> Undef,
     hasManualOverride |-> FALSE,
     sub |-> IF ~disabled THEN subscription(getFunctionName(query), a) ELSE NoSub,
     initialData |-> initialData, called |-> FALSE, token |-> FALSE]

\* mutant of decodeConvexLoad: the envelope's data is not passed on as the seed
decodeConvexLoad_Unseeded(encoded) ==
    createDetachedQuery(makeFunctionReference(encoded.refName), encoded.args, Undef)

decodeConvexLoad(encoded) ==
    createDetachedQuery(makeFunctionReference(encoded.refName), encoded.args, encoded.data)

\* convexLoad in the browser: one-shot fetch, then the live subscription
\* seeded with what the fetch returned.
convexLoadBrowser(ref, a, fetched) == createDetachedQuery(ref, a, fetched)

detached_data(d) ==
    IF detached[d].hasManualOverride THEN detached[d].manualOverride ELSE detached[d].data
detached_error(d) == detached[d].error
detached_isLoading(d) == detached[d].error = Undef /\ detached[d].data = Undef
detached_isStale(d) == FALSE
detached_ready(d) == detached[d].data # Undef

\* what a load returned on the server / the one-shot fetch in the browser: a
\* falsy and a truthy value
Seeds == {Ok(0), Ok(1)}

InitDetachedIdle ==
    /\ origin = "none"
    /\ loadResult = ConvexLoadResult("tasks:get", ArgsOf(1), Undef)
    /\ envelope = NotEncoded
    /\ detached = [d \in Sites |-> NoDetached]

\* Server: convexLoad returned loadResult; the transport hook encoded it and
\* the client decoded the envelope at each site.
InitDecode ==
    /\ kind = "detached"
    /\ origin = "decode"
    /\ \E l \in Loads, v \in Seeds : loadResult = ConvexLoadResult(l[1], l[2], v)
    /\ envelope = [load |-> encodeConvexLoad(loadResult), user |-> Pending]
    /\ detached = [d \in Sites |-> decodeConvexLoad(encodeConvexLoad(loadResult))]

\* Client-side navigation: convexLoad at the first site awaited its one-shot
\* fetch; nothing was encoded and the second site is not used.
InitLoad ==
    /\ kind = "detached"
    /\ origin = "load"
    /\ disabled = FALSE
    /\ loadResult = ConvexLoadResult("tasks:get", ArgsOf(1), Undef)
    /\ envelope = NotEncoded
    /\ \E l \in Loads, v \in Seeds :
          detached = [d \in Sites |->
                        IF d = "first"
                        THEN convexLoadBrowser(makeFunctionReference(l[1]), l[2], v)
                        ELSE NoDetached]

\* createDetachedQuery(query, args) called directly (it is exported) at the
\* first site, without the optional initialData.
InitDirect ==
    /\ kind = "detached"
    /\ origin = "direct"
    /\ loadResult = ConvexLoadResult("tasks:get", ArgsOf(1), Undef)
    /\ envelope = NotEncoded
    /\ detached = [d \in Sites |->
                     IF d = "first"
                     THEN createDetachedQuery(makeFunctionReference("tasks:get"),
                                              ArgsOf(1), Undef)
                     ELSE NoDetached]

detachedOnData(c, result) ==
    [c EXCEPT !.data = structuredClone(result), !.hasManualOverride = FALSE,
              !.called = TRUE]

\* mutant of detachedOnError: the data cell is cleared when an error arrives
detachedOnError_ClearsData(c, e) ==
    [c EXCEPT !.data = Undef, !.error = e, !.hasManualOverride = FALSE, !.called = TRUE]

detachedOnError(c, e) ==
    [c EXCEPT !.error = e, !.hasManualOverride = FALSE, !.called = TRUE]

detachedSet(c, value) ==
    [c EXCEPT !.manualOverride = value, !.hasManualOverride = TRUE]

detachedWithOverride(c, f) ==
    IF c.data # Undef
    THEN [c EXCEPT !.manualOverride = update(f, c.data), !.hasManualOverride = TRUE,
                   !.token = TRUE]
    ELSE [c EXCEPT !.token = TRUE]

\* mutant of detachedRelease: releasing the override also closes the channel
detachedRelease_Unsubscribes(c) == [c EXCEPT !.hasManualOverride = FALSE, !.sub = NoSub]

detachedRelease(c) == [c EXCEPT !.hasManualOverride = FALSE]

\* mutant of detachedRefresh: the view starts over from its seed
detachedRefresh_Resets(c) ==
    [c EXCEPT !.data = c.initialData, !.error = Undef, !.hasManualOverride = FALSE]

detachedRefresh(c) == c

DetachedStep(d, c) ==
    /\ kind = "detached"
    /\ detached' = [detached EXCEPT ![d] = c]
    /\ UNCHANGED <<kind, disabled, origin, loadResult, envelope>>
    /\ UNCHANGED <<queryVars, userVars, appVars>>

\* The channel delivers a value to the view's success callback.
DetachedData(d, v) ==
    /\ detached[d].made
    /\ detached[d].sub # NoSub
    /\ DetachedStep(d, detachedOnData(detached[d], v))

\* The channel delivers an error to the view's error callback.
DetachedError(d, e) ==
    /\ detached[d].made
    /\ detached[d].sub # NoSub
    /\ DetachedStep(d, detachedOnError(detached[d], e))

DetachedSet(d, v) ==
    /\ detached[d].made
    /\ DetachedStep(d, detachedSet(detached[d], v))

DetachedWithOverride(d, f) ==
    /\ detached[d].made
    /\ DetachedStep(d, detachedWithOverride(detached[d], f))

DetachedRelease(d) ==
    /\ detached[d].made
    /\ detached[d].token
    /\ DetachedStep(d, detachedRelease(detached[d]))

DetachedRefresh(d) ==
    /\ detached[d].made
    /\ DetachedStep(d, detachedRefresh(detached[d]))

NextDetached ==
    \E d \in Sites :
        \/ \E v \in OkValues : DetachedData(d, v)
        \/ \E e \in Errors : DetachedError(d, e)
        \/ \E v \in OkValues : DetachedSet(d, v)
        \/ \E f \in Updates : DetachedWithOverride(d, f)
        \/ DetachedRelease(d)
        \/ DetachedRefresh(d)


(***************************************************************************)
(* decodeConvexUser                                                        *)
(***************************************************************************)
\* image: "absent" is null/undefined, "" the empty string; both are falsy.
Images == {"absent", "", "x.png", "y.png"}
Users == [id : {"u1"}, name : {"jwt", "live"}, image : Images]
\* the push of an unauthenticated subscription: result === null
Null == [id |-> "null", name |-> "", image |-> "absent"]

imageTruthy(i) == i # "absent" /\ i # ""

\* mutant of mustPreload: every push is shown at once
mustPreload_Never(result, cur) == FALSE

\* result.image && result.image !== current.image
mustPreload(result, cur) == imageTruthy(result.image) /\ result.image # cur.image

InitUserIdle ==
    /\ seed = Null
    /\ current = Null
    /\ userSub = FALSE
    /\ preloads = <<>>
    /\ lastEvent = "none"
    /\ lastPush = Null

\* decodeConvexUser(encoded, queryRef, args)
decodeConvexUser ==
    /\ kind = "user"
    /\ seed \in Users
    /\ current = seed
    /\ userSub = ~disabled
    /\ preloads = <<>>
    /\ lastEvent = "none"
    /\ lastPush = Null

\* mutant of UserPush: the null guard is missing, a null result is displayed
UserPush_ShowsNull(result) ==
    /\ kind = "user"
    /\ userSub
    /\ current' = result
    /\ UNCHANGED preloads
    /\ lastEvent' = IF result = Null THEN "null" ELSE "push"
    /\ lastPush' = IF result = Null THEN lastPush ELSE result
    /\ UNCHANGED <<kind, disabled, seed, userSub>>
    /\ UNCHANGED <<queryVars, detachedVars, appVars>>

\* The success callback: null is ignored, a new image is preloaded first
\* (img.src = result.image starts the load), anything else is shown at once.
UserPush(result) ==
    /\ kind = "user"
    /\ userSub
    /\ IF result = Null
       THEN UNCHANGED <<current, preloads>>
       ELSE IF mustPreload(result, current)
            THEN /\ Len(preloads) < MaxPreloads
                 /\ preloads' = Append(preloads, result)
                 /\ UNCHANGED current
            ELSE /\ current' = result
                 /\ UNCHANGED preloads
    /\ lastEvent' = IF result = Null THEN "null" ELSE "push"
    /\ lastPush' = IF result = Null THEN lastPush ELSE result
    /\ UNCHANGED <<kind, disabled, seed, userSub>>
    /\ UNCHANGED <<queryVars, detachedVars, appVars>>

RemoveAt(q, i) == [j \in 1..(Len(q) - 1) |-> IF j < i THEN q[j] ELSE q[j + 1]]

\* mutant of PreloadSettled: a failed preload drops the pushed user
PreloadSettled_ErrorDrops(i, outcome) ==
    /\ outcome \in {"onload", "onerror"}
    /\ kind = "user"
    /\ i \in 1..Len(preloads)
    /\ current' = IF outcome = "onload" THEN preloads[i] ELSE current
    /\ preloads' = RemoveAt(preloads, i)
    /\ lastEvent' = outcome
    /\ UNCHANGED <<kind, disabled, seed, userSub, lastPush>>
    /\ UNCHANGED <<queryVars, detachedVars, appVars>>

\* img.onload / img.onerror of the i-th image still loading
PreloadSettled(i, outcome) ==
    /\ outcome \in {"onload", "onerror"}
    /\ kind = "user"
    /\ i \in 1..Len(preloads)
    /\ current' = preloads[i]
    /\ preloads' = RemoveAt(preloads, i)
    /\ lastEvent' = outcome
    /\ UNCHANGED <<kind, disabled, seed, userSub, lastPush>>
    /\ UNCHANGED <<queryVars, detachedVars, appVars>>

\* The error callback: keep showing what is shown.
UserError ==
    /\ kind = "user"
    /\ userSub
    /\ lastEvent' = "error"
    /\ UNCHANGED <<kind, disabled, seed, current, userSub, preloads, lastPush>>
    /\ UNCHANGED <<queryVars, detachedVars, appVars>>

NextUser ==
    \/ \E r \in Users \cup {Null} : UserPush(r)
    \/ \E i \in 1..MaxPreloads, o \in {"onload", "onerror"} : PreloadSettled(i, o)
    \/ UserError

(***************************************************************************)
(* The transport hooks on the server: hooks.ts calls encodeConvexLoad and  *)
(* encodeConvexUser on a load value, in that order, until one handles it.  *)
(***************************************************************************)
\* new ConvexUserResult(data): Object.assign(this, data) next to the marker
ConvexUserResult(u) ==
    [cls |-> "ConvexUserResult", __convexUser |-> TRUE,
     id |-> u.id, name |-> u.name, image |-> u.image]

\* The same value built by a second copy of the class (another bundle, or
\* the class re-evaluated by HMR): same fields, another class identity.
otherCopy(value) == [value EXCEPT !.cls = "other copy"]

\* ordinary load data next to the envelopes: null, a string, plain objects
PlainValues ==
    {[cls |-> "null"], [cls |-> "string"]} \cup {[cls |-> "Object", data |-> v] : v \in OkValues}

TransportValues ==
    LET loads == {ConvexLoadResult(l[1], l[2], v) : l \in Loads, v \in OkValues}
        users == {ConvexUserResult(u) : u \in Users}
    IN  loads \cup {otherCopy(x) : x \in loads}
          \cup users \cup {otherCopy(x) : x \in users}
          \cup PlainValues

\* value != null && typeof value === "object"
isObject(value) == value.cls \notin {"null", "string"}

\* const { __convexUser: _, ...data } = value
stripMarker(value) == [k \in DOMAIN value \ {"cls", "__convexUser"} |-> value[k]]

encodeConvexUser(value) ==
    IF value.cls = "ConvexUserResult" \/ (isObject(value) /\ "__convexUser" \in DOMAIN value)
    THEN [data |-> stripMarker(value)]
    ELSE NotHandled

\* the load function returned loadResult on the server (client.disabled)
InitEncode ==
    /\ kind = "encode"
    /\ disabled
    /\ origin = "none"
    /\ loadResult \in TransportValues
    /\ envelope = NotEncoded
    /\ detached = [d \in Sites |-> NoDetached]

\* transport.ConvexLoadResult.encode(value)
EncodeLoadHook ==
    /\ kind = "encode"
    /\ envelope.load = Pending
    /\ envelope' = [envelope EXCEPT !.load = encodeConvexLoad(loadResult)]
    /\ UNCHANGED <<kind, disabled, origin, loadResult, detached>>
    /\ UNCHANGED <<queryVars, userVars, appVars>>

\* transport.ConvexUserResult.encode(value), tried when the first hook
\* returned false
EncodeUserHook ==
    /\ kind = "encode"
    /\ envelope.load = NotHandled
    /\ envelope.user = Pending
    /\ envelope' = [envelope EXCEPT !.user = encodeConvexUser(loadResult)]
    /\ UNCHANGED <<kind, disabled, origin, loadResult, detached>>
    /\ UNCHANGED <<queryVars, userVars, appVars>>

NextEncode == EncodeLoadHook \/ EncodeUserHook

(***************************************************************************)
(* convexCommand                                                           *)
(***************************************************************************)
MaxCalls == 2        \* calls made through one command

\* What a caller passes to .updates(): release tokens of withOverride() and
\* objects without a release property (a view itself), each a distinct object.
UpdatesArgs == {<<>>, <<"token">>, <<"view", "token">>, <<"token", "token">>}

\* One call: the mutation's phase and outcome; whether .updates(queries) was
\* chained onto the promise, how often each passed object's release() has
\* run, and how the promise that .updates() returned has settled.
NoCall ==
    [phase |-> "none", outcome |-> "none", chained |-> FALSE, queries |-> <<>>,
     released |-> <<>>, returned |-> "none"]

\* no command, form, server-side call or auth bridge exists at this call site
NotMade == [made |-> FALSE]

InitCommandIdle == command = NotMade

\* convexCommand(ref): let pendingCount = $state(0).  `client` says whether
\* initConvex() has run, i.e. whether getConvexClient() returns or throws.
convexCommand ==
    /\ kind = "command"
    /\ \E c \in BOOLEAN :
          command = [client |-> c, pendingCount |-> 0,
                     calls |-> [i \in 1..MaxCalls |-> NoCall]]

pending(c) == c.pendingCount

InFlight(c) == {i \in 1..MaxCalls : c.calls[i].phase = "inflight"}

\* mutant of updates: the tokens are released when .updates() is called
updates_ReleasesAtOnce(made, queries) ==
    [made EXCEPT !.chained = TRUE, !.queries = queries,
                 !.released = [k \in 1..Len(queries) |->
                                 IF queries[k] = "token" THEN 1 ELSE 0],
                 !.returned = "pending"]

\* promise.updates(...queries): promise.finally(...) is registered; nothing
\* is released yet.
updates(made, queries) ==
    [made EXCEPT !.chained = TRUE, !.queries = queries,
                 !.released = [k \in 1..Len(queries) |-> 0],
                 !.returned = "pending"]

\* command(args): pendingCount++, then the async body runs up to its await:
\* getConvexClient() throws (finally: pendingCount--, the promise rejects) or
\* client.mutation(ref, args) is sent.
command_call(c, i) ==
    IF c.client
    THEN [c EXCEPT !.pendingCount = (c.pendingCount + 1),
                   !.calls[i].phase = "inflight"]
    ELSE [c EXCEPT !.pendingCount = (c.pendingCount + 1) - 1,
                   !.calls[i].phase = "settled",
                   !.calls[i].outcome = "rejected"]

\* mutant of settle: a rejected mutation skips the decrement (try without finally)
settle_NoFinally(c, i, outcome) ==
    [c EXCEPT !.pendingCount = IF outcome = "fulfilled" THEN c.pendingCount - 1
                               ELSE c.pendingCount,
              !.calls[i].phase = "settled",
              !.calls[i].outcome = outcome]

\* the awaited client.mutation settles: finally { pendingCount-- } and the
\* command's promise takes the mutation's outcome.
settle(c, i, outcome) ==
    [c EXCEPT !.pendingCount = c.pendingCount - 1,
              !.calls[i].phase = "settled",
              !.calls[i].outcome = outcome]

\* the callback of promise.finally: q.release() for each q that is an object
\* with a release property; afterwards the promise .updates() returned
\* settles as the command's promise did.
updatesFinally(made) ==
    [made EXCEPT !.released = [k \in 1..Len(made.queries) |->
                                 IF made.queries[k] = "token"
                                 THEN made.released[k] + 1
                                 ELSE made.released[k]],
                 !.returned = made.outcome]

CommandStep(c) ==
    /\ kind = "command"
    /\ command' = c
    /\ UNCHANGED <<kind, viewVars, form, clientVars, serverVars, auth, registry>>

\* command(args), in a plain call
CommandCall(i) ==
    /\ command.calls[i].phase = "none"
    /\ \A j \in 1..(i - 1) : command.calls[j].phase # "none"
    /\ CommandStep(command_call(command, i))

\* command(args).updates(q1, ..., qn)
CommandCallUpdates(i, queries) ==
    /\ command.calls[i].phase = "none"
    /\ \A j \in 1..(i - 1) : command.calls[j].phase # "none"
    /\ LET c == command_call(command, i)
       IN  CommandStep([c EXCEPT !.calls[i] = updates(c.calls[i], queries)])

MutationSettled(i, outcome) ==
    /\ command.calls[i].phase = "inflight"
    /\ CommandStep(settle(command, i, outcome))

UpdatesFinally(i) ==
    /\ command.calls[i].phase = "settled"
    /\ command.calls[i].chained
    /\ command.calls[i].returned = "pending"
    /\ CommandStep([command EXCEPT !.calls[i] = updatesFinally(command.calls[i])])

NextCommand ==
    /\ kind = "command"
    /\ \E i \in 1..MaxCalls :
        \/ CommandCall(i)
        \/ \E queries \in UpdatesArgs : CommandCallUpdates(i, queries)
        \/ \E outcome \in {"fulfilled", "rejected"} : MutationSettled(i, outcome)
        \/ UpdatesFinally(i)

(***************************************************************************)
(* convexForm: one instance                                                *)
(***************************************************************************)
MaxSubmits == 2      \* submits of one form that are under way at once

Elements == {"form1", "form2"}     \* <form> elements the instance is spread on
FormData == {"valid", "invalid"}   \* submitted data, as the form's schema sees it

\* One submit: the data, what the awaited validate() returned (issues or
\* none) and how far handleSubmit has got.
NoSubmit == [phase |-> "none", data |-> "valid", issues |-> FALSE]

\* createInstance(): input, touched, submitted and the field proxies are left
\* out; rawIssues is kept as "is non-empty", result as "is defined".  `sent`
\* is the data of every client.mutation call made so far, `threw` says that
\* the last call of the attachment function threw.
NoForm ==
    [client |-> FALSE, element |-> "null", preflightSchema |-> "schema",
     rawIssues |-> FALSE, result |-> FALSE, pendingCount |-> 0,
     submits |-> [k \in 1..MaxSubmits |-> NoSubmit], sent |-> {}, threw |-> FALSE]

InitFormIdle == form = NotMade

convexForm ==
    /\ kind = "form"
    /\ \E c \in BOOLEAN : form = [NoForm EXCEPT !.client = c]

\* preflightSchema?.["~standard"].validate(data): issues for data the schema
\* rejects; nothing at all when there is no schema.
validate(schema, formData) == schema = "schema" /\ formData = "invalid"

Mutating(f) == {k \in 1..MaxSubmits : f.submits[k].phase = "mutating"}

\* mutant of attach: the single-element guard is missing
attach_Replaces(f, el) == [f EXCEPT !.element = el, !.threw = FALSE]

\* the function createAttachment returns, called with the <form> element:
\* `if (element) throw ...` comes before any assignment
attach(f, el) ==
    IF f.element # "null"
    THEN [f EXCEPT !.threw = TRUE]
    ELSE [f EXCEPT !.element = el, !.threw = FALSE]

\* the cleanup the attachment returns
detach(f) == [f EXCEPT !.element = "null", !.preflightSchema = "undefined"]

preflight(f, schema) == [f EXCEPT !.preflightSchema = schema]

\* handleSubmit up to its await: the schema in place now validates the data
handleSubmit(f, k, formData) ==
    [f EXCEPT !.submits[k] = [phase |-> "validating", data |-> formData,
                              issues |-> validate(f.preflightSchema, formData)]]

\* doMutation up to its await: pendingCount++, then getConvexClient() throws
\* (catch: result = undefined; finally: pendingCount--) or client.mutation
\* is sent.
doMutation(f, k) ==
    IF f.client
    THEN [f EXCEPT !.pendingCount = f.pendingCount + 1,
                   !.submits[k].phase = "mutating",
                   !.sent = f.sent \cup {f.submits[k].data}]
    ELSE [f EXCEPT !.pendingCount = (f.pendingCount + 1) - 1,
                   !.result = FALSE,
                   !.submits[k] = NoSubmit]

\* handleSubmit after its await: issues are stored and the submit ends, or
\* the callback runs and calls submit().
validated(f, k) ==
    IF f.submits[k].issues
    THEN [f EXCEPT !.rawIssues = TRUE, !.submits[k] = NoSubmit]
    ELSE doMutation(f, k)

\* doMutation after its await
formSettle(f, k, outcome) ==
    IF outcome = "fulfilled"
    THEN [f EXCEPT !.result = TRUE, !.rawIssues = FALSE,
                   !.pendingCount = f.pendingCount - 1, !.submits[k] = NoSubmit]
    ELSE [f EXCEPT !.result = FALSE,
                   !.pendingCount = f.pendingCount - 1, !.submits[k] = NoSubmit]

FormStep(f) ==
    /\ kind = "form"
    /\ form' = f
    /\ UNCHANGED <<kind, viewVars, command, clientVars, serverVars, auth, registry>>

\* {...form} is spread on a <form> element that mounts
FormAttach(el) == FormStep(attach(form, el))

\* the element unmounts, or the attachment re-runs
FormDetach ==
    /\ form.element # "null"
    /\ FormStep(detach(form))

\* form.preflight(schema)
FormPreflight ==
    /\ form.preflightSchema = "undefined"
    /\ FormStep(preflight(form, "schema"))

\* a submit event on the attached element
FormSubmit(k, formData) ==
    /\ form.element # "null"
    /\ form.submits[k].phase = "none"
    /\ \A j \in 1..(k - 1) : form.submits[j].phase # "none"
    /\ FormStep(handleSubmit(form, k, formData))

FormValidated(k) ==
    /\ form.submits[k].phase = "validating"
    /\ FormStep(validated(form, k))

FormMutationSettled(k, outcome) ==
    /\ form.submits[k].phase = "mutating"
    /\ FormStep(formSettle(form, k, outcome))

NextForm ==
    /\ kind = "form"
    /\ \/ \E el \in Elements : FormAttach(el)
       \/ FormDetach
       \/ FormPreflight
       \/ \E k \in 1..MaxSubmits :
             \/ \E formData \in FormData : FormSubmit(k, formData)
             \/ FormValidated(k)
             \/ \E outcome \in {"fulfilled", "rejected"} : FormMutationSettled(k, outcome)

(***************************************************************************)
(* convexForm(...).for(id): the registry of keyed instances                *)
(***************************************************************************)
MaxComponents == 3   \* components that call form.for(id)

Ids == {"a", "b"}
Components == 1..MaxComponents

\* A component: the id it passed to for(), the instance it was handed, the
\* entry whose cleanup its $effect.pre holds (0: none) and whether it has
\* been destroyed.
NoComponent == [id |-> "none", instance |-> 0, cleanup |-> 0, destroyed |-> FALSE]

\* `instances` is the SvelteMap (0: no entry under the id).  An entry object
\* is numbered after the component whose call created it, and so is the
\* instance it holds; `count` is the count field of each entry object, and
\* `ticks` are the `tick().then(...)` continuations still queued.
NoRegistry ==
    [instances |-> [id \in Ids |-> 0],
     count |-> [e \in Components |-> 0],
     components |-> [c \in Components |-> NoComponent],
     ticks |-> {}]

InitRegistryIdle == registry = NotMade

\* convexForm(schema, mutationRef): `const instances = new SvelteMap()`
InitRegistry == kind = "registry" /\ registry = NoRegistry

\* form.for(id), called while component c initialises
for(r, c, id) ==
    IF r.instances[id] # 0
    THEN [r EXCEPT !.count[r.instances[id]] = @ + 1,
                   !.components[c] = [NoComponent EXCEPT !.id = id,
                                         !.instance = r.instances[id]]]
    ELSE [r EXCEPT !.instances[id] = c,
                   !.count[c] = 1,
                   !.components[c] = [NoComponent EXCEPT !.id = id, !.instance = c,
                                         !.cleanup = c]]

\* Component c is destroyed: the teardown of its $effect.pre, if the
\* component's for() call registered one, decrements the count of the entry
\* it captured and queues the removal.
teardown(r, c) ==
    LET entry == r.components[c].cleanup IN
    IF entry # 0
    THEN [r EXCEPT !.count[entry] = @ - 1,
                   !.ticks = @ \cup {[id |-> r.components[c].id, entry |-> entry]},
                   !.components[c].destroyed = TRUE]
    ELSE [r EXCEPT !.components[c].destroyed = TRUE]

\* the continuation of tick(): `if (entry.count === 0) instances.delete(id)`
afterTick(r, t) ==
    IF r.count[t.entry] = 0
    THEN [r EXCEPT !.ticks = @ \ {t}, !.instances[t.id] = 0]
    ELSE [r EXCEPT !.ticks = @ \ {t}]

RegistryStep(r) ==
    /\ kind = "registry"
    /\ registry' = r
    /\ UNCHANGED <<kind, viewVars, command, form, clientVars, serverVars, auth>>

ForCall(c, id) ==
    /\ registry.components[c].id = "none"
    /\ RegistryStep(for(registry, c, id))

HolderDestroyed(c) ==
    /\ registry.components[c].id # "none"
    /\ ~registry.components[c].destroyed
    /\ RegistryStep(teardown(registry, c))

AfterTick(t) ==
    /\ t \in registry.ticks
    /\ RegistryStep(afterTick(registry, t))

NextRegistry ==
    /\ kind = "registry"
    /\ \/ \E c \in Components, id \in Ids : ForCall(c, id)
       \/ \E c \in Components : HolderDestroyed(c)
       \/ \E t \in [id : Ids, entry : Components] : AfterTick(t)

(***************************************************************************)
(* client.svelte.ts: the module-level singleton                            *)
(***************************************************************************)
MaxMounts == 2       \* components under setupConvex() at once

Str(text) == [type |-> "string", text |-> text]
NotAString == [type |-> "undefined", text |-> ""]
NullUrl == [type |-> "null", text |-> ""]
\* what callers pass as url: two deployments, the empty string, a value that
\* is not a string, and a string that is no deployment URL (no scheme)
UrlInputs ==
    {Str("https://a.convex.cloud"), Str("https://b.convex.cloud"), Str(""),
     NotAString, Str("localhost:3210")}

NullClient == [tag |-> "null", address |-> "", closed |-> FALSE]

\* !url || typeof url !== "string"
urlRejected(url) == url.type # "string" \/ url.text = ""

\* new ConvexClient(url, ...) validates the deployment URL and throws on one
\* that does not start with http:// or https://
validDeploymentUrl(url) ==
    url \in {Str("https://a.convex.cloud"), Str("https://b.convex.cloud")}
ConvexClient(url) == [tag |-> "client", address |-> url.text, closed |-> FALSE]

Threw(fn) == [fn |-> fn, threw |-> TRUE, client |-> NullClient, url |-> NullUrl]
Returned(fn, c, u) == [fn |-> fn, threw |-> FALSE, client |-> c, url |-> u]

InitClientIdle ==
    /\ _client = NotMade
    /\ _url = NotMade
    /\ mounted = 0
    /\ returned = NotMade

\* the module after import: let _client = null, let _url = null
InitClientModule ==
    /\ kind = "client"
    /\ _client = NullClient
    /\ _url = NullUrl
    /\ mounted = 0
    /\ returned = Returned("none", NullClient, NullUrl)

\* initConvex(url): the pair <<_client, _url>> after the call, and what the
\* call returned
initConvex(url) ==
    IF _client # NullClient THEN <<_client, _url, Returned("initConvex", _client, NullUrl)>>
    ELSE IF urlRejected(url) THEN <<_client, _url, Threw("initConvex")>>
    ELSE IF ~validDeploymentUrl(url) THEN <<_client, url, Threw("initConvex")>>
    ELSE <<ConvexClient(url), url, Returned("initConvex", ConvexClient(url), NullUrl)>>

ClientStep ==
    /\ kind = "client"
    /\ UNCHANGED <<kind, viewVars, command, form, serverVars, auth, registry>>

InitConvexCall(url) ==
    /\ ClientStep
    /\ _client' = initConvex(url)[1]
    /\ _url' = initConvex(url)[2]
    /\ returned' = initConvex(url)[3]
    /\ UNCHANGED mounted

\* setupConvex(url) in a component: initConvex, setConvexContext, and the
\* effect whose cleanup closes the client
SetupConvexCall(url) ==
    /\ ClientStep
    /\ mounted < MaxMounts
    /\ _client' = initConvex(url)[1]
    /\ _url' = initConvex(url)[2]
    /\ returned' = [initConvex(url)[3] EXCEPT !.fn = "setupConvex"]
    /\ mounted' = IF initConvex(url)[3].threw THEN mounted ELSE mounted + 1

\* a component that called setupConvex is destroyed: client.close()
ComponentDestroyed ==
    /\ ClientStep
    /\ mounted > 0
    /\ mounted' = mounted - 1
    /\ _client' = [_client EXCEPT !.closed = TRUE]
    /\ UNCHANGED <<_url, returned>>

GetConvexClientCall ==
    /\ ClientStep
    /\ returned' = IF _client = NullClient THEN Threw("getConvexClient")
                   ELSE Returned("getConvexClient", _client, NullUrl)
    /\ UNCHANGED <<_client, _url, mounted>>

GetConvexUrlCall ==
    /\ ClientStep
    /\ returned' = IF _url = NullUrl THEN Threw("getConvexUrl")
                   ELSE Returned("getConvexUrl", NullClient, _url)
    /\ UNCHANGED <<_client, _url, mounted>>

NextClient ==
    /\ kind = "client"
    /\ \/ \E url \in UrlInputs : InitConvexCall(url)
       \/ \E url \in UrlInputs : SetupConvexCall(url)
       \/ ComponentDestroyed
       \/ GetConvexClientCall
       \/ GetConvexUrlCall

(***************************************************************************)
(* server.ts (serverQuery, serverMutation, serverAction) and convexLoad on *)
(* the server                                                              *)
(***************************************************************************)
MaxRequests == 2     \* requests the server handles at once

Tokens == {"T1", "T2"}
NoToken == "null"                  \* locals.convexToken is not set
ServerFns == {"serverQuery", "serverMutation", "serverAction"}
Modules == {"server.ts", "command.svelte.ts"}   \* each has its own _httpClient

NoHttpClient == [made |-> FALSE, auth |-> NoToken]
\* new ConvexHttpClient(getConvexUrl())
ConvexHttpClient == [made |-> TRUE, auth |-> NoToken]
setAuth(c, token) == [c EXCEPT !.auth = token]

\* One request: its locals.convexToken, the call it makes, and once the call
\* is on the wire (phase "run") which client carries it and with what token.
NoRequest ==
    [phase |-> "idle", fn |-> "none", convexToken |-> NoToken, client |-> "none",
     auth |-> NoToken]

InitServerIdle ==
    /\ _httpClient = NotMade
    /\ requests = NotMade

\* the modules after import: let _httpClient = null; no request yet
InitServer ==
    /\ kind = "server"
    /\ _httpClient = [m \in Modules |-> NoHttpClient]
    /\ requests = [r \in 1..MaxRequests |-> NoRequest]

\* getTokenFromRequest(): getRequestEvent() hands back the event of the
\* request the caller runs in
getTokenFromRequest(r) == requests[r].convexToken

getUnauthenticatedClient ==
    IF ~_httpClient["server.ts"].made THEN ConvexHttpClient
    ELSE _httpClient["server.ts"]

\* mutant of getHttpClient: the token is set on the shared client
getHttpClient_AuthsShared(r) ==
    LET token == getTokenFromRequest(r)
    IN  IF token # NoToken
        THEN [client |-> "singleton", auth |-> token,
              shared |-> setAuth(getUnauthenticatedClient, token)]
        ELSE [client |-> "singleton", auth |-> getUnauthenticatedClient.auth,
              shared |-> getUnauthenticatedClient]

\* getHttpClient(): which client the call gets, the token it carries, and
\* the module's singleton afterwards
getHttpClient(r) ==
    LET token == getTokenFromRequest(r)
    IN  IF token # NoToken
        THEN [client |-> "own", auth |-> setAuth(ConvexHttpClient, token).auth,
              shared |-> _httpClient["server.ts"]]
        ELSE [client |-> "singleton", auth |-> getUnauthenticatedClient.auth,
              shared |-> getUnauthenticatedClient]

ServerStep ==
    /\ kind = "server"
    /\ UNCHANGED <<kind, viewVars, command, form, clientVars, auth, registry>>

\* a request carrying `token` calls serverQuery / serverMutation /
\* serverAction: the call waits in `await getHttpClient()`
ServerCall(r, fn, token) ==
    /\ ServerStep
    /\ requests[r].phase = "idle"
    /\ requests' = [requests EXCEPT ![r] =
                      [NoRequest EXCEPT !.phase = "token", !.fn = fn,
                                        !.convexToken = token]]
    /\ UNCHANGED _httpClient

\* getHttpClient() resolves and client.query / mutation / action is sent
ServerSend(r) ==
    /\ ServerStep
    /\ requests[r].phase = "token"
    /\ requests' = [requests EXCEPT ![r].phase = "run",
                                    ![r].client = getHttpClient(r).client,
                                    ![r].auth = getHttpClient(r).auth]
    /\ _httpClient' = [_httpClient EXCEPT !["server.ts"] = getHttpClient(r).shared]

\* a load function of a request carrying `token` calls convexLoad: the
\* module's own client is made if need be and the query is sent on it
ConvexLoadCall(r, token) ==
    /\ ServerStep
    /\ requests[r].phase = "idle"
    /\ LET c == IF ~_httpClient["command.svelte.ts"].made THEN ConvexHttpClient
                ELSE _httpClient["command.svelte.ts"]
       IN  /\ _httpClient' = [_httpClient EXCEPT !["command.svelte.ts"] = c]
           /\ requests' = [requests EXCEPT ![r] =
                             [phase |-> "run", fn |-> "convexLoad",
                              convexToken |-> token, client |-> "load",
                              auth |-> c.auth]]

\* the call's answer arrives and the request ends
ServerDone(r) ==
    /\ ServerStep
    /\ requests[r].phase = "run"
    /\ requests' = [requests EXCEPT ![r] = NoRequest]
    /\ UNCHANGED _httpClient

NextServer ==
    /\ kind = "server"
    /\ \E r \in 1..MaxRequests :
        \/ \E fn \in ServerFns, token \in Tokens \cup {NoToken} : ServerCall(r, fn, token)
        \/ ServerSend(r)
        \/ \E token \in Tokens \cup {NoToken} : ConvexLoadCall(r, token)
        \/ ServerDone(r)

(***************************************************************************)
(* setupConvexAuth                                                         *)
(***************************************************************************)
\* The cells of setupConvexAuth (sessionData as "is not null", convexAuthed
\* as "null" / "true" / "false"), and next to them: what auth the
\* ConvexClient holds (clientAuth), whether the sync effect is scheduled
\* (dirty) and whether its last run read sessionPending (tracked), which
\* onChange callbacks the client may still call (pre: the one of the
\* pre-authentication, live: the one of the effect's last run while its
\* `active` is true), and what the effect's last run called (lastCall).
NoAuth ==
    [initialToken |-> FALSE, sessionData |-> FALSE, sessionPending |-> TRUE,
     convexAuthed |-> "null", clientAuth |-> "none", dirty |-> FALSE,
     tracked |-> FALSE, pre |-> FALSE, live |-> FALSE, lastCall |-> "none"]

InitAuthIdle == auth = NotMade

\* setupConvexAuth({authClient, initialToken}) during component init: the
\* session subscription, the pre-authentication when initialToken is given,
\* and the effect scheduled for after mount.
setupConvexAuth ==
    /\ kind = "auth"
    /\ \E t \in BOOLEAN :
          auth = [NoAuth EXCEPT !.initialToken = t,
                                !.clientAuth = IF t THEN "initial" ELSE "none",
                                !.pre = t,
                                !.dirty = TRUE]

hasSession(a) == a.sessionData

\* the callback of authClient.useSession().subscribe: both cells are
\* written; the effect is scheduled when something it read has changed
sessionCallback(a, present, isPending) ==
    [a EXCEPT !.sessionData = present,
              !.sessionPending = isPending,
              !.dirty = \/ a.dirty
                        \/ present # a.sessionData
                        \/ (a.tracked /\ isPending # a.sessionPending)]

\* mutant of syncEffect: auth is cleared whenever there is no session data
syncEffect_ClearsWhilePending(a) ==
    IF hasSession(a)
    THEN [a EXCEPT !.clientAuth = "session", !.live = TRUE, !.lastCall = "setAuth",
                   !.dirty = FALSE, !.tracked = FALSE]
    ELSE [a EXCEPT !.clientAuth = "none", !.convexAuthed = "null", !.live = FALSE,
                   !.lastCall = "clearAuth", !.dirty = FALSE, !.tracked = TRUE]

\* the $effect: the previous run's cleanup (active = false), then setAuth
\* when there is a session, clearAuth when there is none and the session is
\* not pending, nothing otherwise
syncEffect(a) ==
    IF hasSession(a)
    THEN [a EXCEPT !.clientAuth = "session", !.live = TRUE, !.lastCall = "setAuth",
                   !.dirty = FALSE, !.tracked = FALSE]
    ELSE IF ~a.sessionPending
    THEN [a EXCEPT !.clientAuth = "none", !.convexAuthed = "null", !.live = FALSE,
                   !.lastCall = "clearAuth", !.dirty = FALSE, !.tracked = TRUE]
    ELSE [a EXCEPT !.live = FALSE, !.lastCall = "none", !.dirty = FALSE,
                   !.tracked = TRUE]

\* an onChange callback writes convexAuthed
onChange(a, isAuthed) == [a EXCEPT !.convexAuthed = IF isAuthed THEN "true" ELSE "false"]

\* the derived cells behind useConvexAuth(): `!!initialToken && convexAuthed
\* === null` counts as authenticated, else a session that Convex confirmed
isAuthenticated(a) ==
    \/ (a.initialToken /\ a.convexAuthed = "null")
    \/ (hasSession(a) /\ a.convexAuthed = "true")

isLoading(a) == a.sessionPending \/ (hasSession(a) /\ a.convexAuthed = "null")

\* useConvexAuth(): the context object with its two getters
useConvexAuth == [isAuthenticated |-> isAuthenticated(auth), isLoading |-> isLoading(auth)]

AuthStep(a) ==
    /\ kind = "auth"
    /\ auth' = a
    /\ UNCHANGED <<kind, viewVars, command, form, clientVars, serverVars, registry>>

\* Better Auth reports a session state
SessionChange(present, isPending) ==
    /\ <<present, isPending>> # <<auth.sessionData, auth.sessionPending>>
    /\ AuthStep(sessionCallback(auth, present, isPending))

AuthEffect ==
    /\ auth.dirty
    /\ AuthStep(syncEffect(auth))

\* the client calls the onChange callback given to the pre-authentication
PreAuthChange(isAuthed) ==
    /\ auth.pre
    /\ AuthStep(onChange(auth, isAuthed))

\* the client calls the onChange callback given by the effect's last run
AuthChange(isAuthed) ==
    /\ auth.live
    /\ AuthStep(onChange(auth, isAuthed))

NextAuth ==
    /\ kind = "auth"
    /\ \/ \E present \in BOOLEAN, isPending \in BOOLEAN : SessionChange(present, isPending)
       \/ AuthEffect
       \/ \E isAuthed \in BOOLEAN : PreAuthChange(isAuthed)
       \/ \E isAuthed \in BOOLEAN : AuthChange(isAuthed)

(***************************************************************************)
(* Specification                                                           *)
(***************************************************************************)
Init ==
    /\ kind \in {"query", "detached", "user", "encode", "command", "form", "client",
                 "server", "auth", "registry"}
    /\ disabled \in BOOLEAN
    /\ IF kind = "query" THEN convexQuery ELSE InitQueryIdle
    /\ IF kind = "detached" THEN InitDecode \/ InitLoad \/ InitDirect
       ELSE IF kind = "encode" THEN InitEncode
       ELSE InitDetachedIdle
    /\ IF kind = "user" THEN decodeConvexUser ELSE InitUserIdle
    /\ IF kind = "command" THEN convexCommand ELSE InitCommandIdle
    /\ IF kind = "form" THEN convexForm ELSE InitFormIdle
    /\ IF kind = "client" THEN InitClientModule ELSE InitClientIdle
    /\ IF kind = "server" THEN InitServer ELSE InitServerIdle
    /\ IF kind = "auth" THEN setupConvexAuth ELSE InitAuthIdle
    /\ IF kind = "registry" THEN InitRegistry ELSE InitRegistryIdle

Next ==
    \/ NextQuery
    \/ NextDetached
    \/ NextUser
    \/ NextEncode
    \/ NextCommand
    \/ NextForm
    \/ NextClient
    \/ NextServer
    \/ NextAuth
    \/ NextRegistry

Spec == Init /\ [][Next]_vars

\* One kind of call site at a time.
InitQuery == Init /\ kind = "query"
SpecQuery == InitQuery /\ [][NextQuery]_vars
InitDetached == Init /\ kind = "detached"
SpecDetached == InitDetached /\ [][NextDetached]_vars
\* A view through its component's teardown, next to a second view.
NextScope ==
    \/ NextQuery
    \/ Teardown
    \/ PeerSubscribe
    \/ PeerTeardown
    \/ \E v \in OkValues : PeerData(v)
InitScope == Init /\ kind = "query" /\ options = NoOptions
SpecScope == InitScope /\ [][NextScope]_vars
InitUser == Init /\ kind = "user"
SpecUser == InitUser /\ [][NextUser]_vars
InitHooks == Init /\ kind = "encode"
SpecEncode == InitHooks /\ [][NextEncode]_vars

\* Every image preload terminates: the browser fires onload or onerror of
\* each Image whose src was set.
SettleOf(r) ==
    \E i \in 1..MaxPreloads, o \in {"onload", "onerror"} :
        /\ i <= Len(preloads)
        /\ preloads[i] = r
        /\ PreloadSettled(i, o)
FairUser == \A r \in Users : WF_vars(SettleOf(r))
SpecUserFair == InitUser /\ [][NextUser]_vars /\ FairUser

TypeOK ==
    /\ kind \in {"query", "detached", "user", "encode", "command", "form", "client",
                 "server", "auth", "registry"}
    /\ state.result \in Results \cup {Undef}
    /\ state.lastResult \in {structuredClone(r) : r \in Results} \cup {Undef}
    /\ state.manualOverride \in OkValues \cup {Undef}
    /\ sub \in ArgsSet \cup {NoSub}
    /\ current \in Users \cup {Null}
    /\ Len(preloads) <= MaxPreloads
    /\ lastEvent \in {"none", "null", "push", "onload", "onerror", "error"}


\* The writers: a command and a form instance.
NextWrites == NextCommand \/ NextForm
InitWrites == Init /\ kind \in {"command", "form"}
SpecWrites == InitWrites /\ [][NextWrites]_vars
InitCommand == Init /\ kind = "command"
SpecCommand == InitCommand /\ [][NextCommand]_vars
InitForm == Init /\ kind = "form"
SpecForm == InitForm /\ [][NextForm]_vars
InitClient == Init /\ kind = "client"
SpecClient == InitClient /\ [][NextClient]_vars
InitServerSide == Init /\ kind = "server"
SpecServer == InitServerSide /\ [][NextServer]_vars
InitAuth == Init /\ kind = "auth"
SpecAuth == InitAuth /\ [][NextAuth]_vars
InitFor == Init /\ kind = "registry"
SpecRegistry == InitFor /\ [][NextRegistry]_vars

\* The two kinds of query view.
NextViews == NextQuery \/ NextDetached
InitViews == Init /\ kind \in {"query", "detached"}
SpecViews == InitViews /\ [][NextViews]_vars

(***************************************************************************)
(* Properties                                                              *)
(***************************************************************************)
Made == {d \in Sites : detached[d].made}

\* C1: for every view with non-skip args, right after the channel delivers a
\* successful value v, data equals v and error is undefined, also when an
\* error was delivered earlier.
C1_SuccessShowsValue ==
    [][/\ \A v \in OkValues :
             QueryData(v) => (get_data' = v /\ get_error' = Undef)
       /\ \A d \in Sites, v \in OkValues :
             DetachedData(d, v) => (detached_data(d)' = v /\ detached_error(d)' = Undef)
      ]_vars

\* C2: for every view with non-skip args, right after the channel delivers an
\* error e, error equals e and data is undefined, whatever data it held.
C2_ErrorShowsNoData ==
    [][/\ \A e \in Errors :
             QueryError(e) => (get_error' = e /\ get_data' = Undef)
       /\ \A d \in Sites, e \in Errors :
             DetachedError(d, e) => (detached_error(d)' = e /\ detached_data(d)' = Undef)
      ]_vars

\* C3: in every reachable state of every view, data and error are never both
\* non-undefined.
C3_DataErrorExclusive ==
    /\ kind = "query" => ~(get_data # Undef /\ get_error # Undef)
    /\ kind = "detached" =>
          \A d \in Made : ~(detached_data(d) # Undef /\ detached_error(d) # Undef)

\* C4: whenever a convexQuery view's args resolve to skip it reports
\* data = undefined, loading = isLoading = false, error = undefined and
\* isStale = false, regardless of prior results, errors, keepPreviousData
\* fallbacks, initialData and manual overrides.
C4_SkipIsInert ==
    (kind = "query" /\ isSkipped) =>
        /\ get_data = Undef
        /\ get_error = Undef
        /\ ~get_isLoading
        /\ ~get_loading
        /\ ~get_isStale


\* C5: after set(O) data equals O in every state until the next channel
\* callback for the active args (the caller replacing or releasing the
\* override aside); that callback, success or error, clears the override:
\* after a success R2 data equals R2, after an error the override is no longer
\* what is displayed.  (A step is set(o) only for o = the override stored
\* after it, and a delivery of v only for v = the result stored after it, so
\* each quantifier over values is evaluated at that one value.)
C5_OverrideUntilCallback ==
    [][/\ kind = "query" =>
             /\ LET o == state'.manualOverride
                IN  (o \in OkValues /\ QuerySet(o)) => get_data' = o
             \* the effects running, args changing and refresh() leave it displayed
             /\ (state.hasManualOverride /\ (state' = state \/ (dirty /\ ~dirty')))
                => (state'.hasManualOverride /\ get_data' = get_data)
             /\ LET v == localResult'
                IN  /\ (v \in OkValues /\ QueryData(v))
                       => (~state'.hasManualOverride /\ get_data' = v)
                    /\ (v \in Errors /\ QueryError(v))
                       => (~state'.hasManualOverride /\ get_data' = Undef)
       /\ kind = "detached" =>
             \A d \in Sites :
                /\ LET o == detached'[d].manualOverride
                   IN  (o \in OkValues /\ DetachedSet(d, o)) => detached_data(d)' = o
                \* refresh() and whatever happens to the other view leave it displayed
                /\ (detached[d].hasManualOverride
                      /\ (DetachedRefresh(d) \/ detached'[d] = detached[d]))
                   => (detached'[d].hasManualOverride
                         /\ detached_data(d)' = detached_data(d))
                /\ LET v == detached'[d].data
                   IN  (v \in OkValues /\ DetachedData(d, v)) =>
                          (~detached'[d].hasManualOverride /\ detached_data(d)' = v)
                /\ LET e == detached'[d].error
                   IN  (e \in Errors /\ DetachedError(d, e)) =>
                          (~detached'[d].hasManualOverride
                             /\ detached_data(d)' = detached'[d].data)
      ]_vars

\* a set() override that a success callback has cleared: no release token was
\* ever handed out, the override value is still stored, and the view shows
\* the server's value instead.
C5_Witness ==
    /\ kind = "query"
    /\ ~dirty
    /\ ~tokens
    /\ state.manualOverride # Undef
    /\ ~state.hasManualOverride
    /\ get_data = state.result
    /\ get_data # Undef
    /\ get_data # state.manualOverride

\* C6: with keepPreviousData, after args change from A (resolved result R) to
\* B (not yet resolved) isStale is true and data equals R in every state
\* until B's first result arrives; after B resolves isStale is false and data
\* equals B's result.
C6_StaleShowsPrevious ==
    [][/\ (/\ kind = "query"
           /\ options.keepPreviousData
           /\ ~dirty
           /\ ~state.hasManualOverride
           /\ args \in ArgsSet
           /\ state.argsForLastResult \in ArgsSet \ {args}
           \* R came from the channel: result is written by callbacks only
           /\ state.result \in OkValues \ {options.initialData}
           /\ localResult = Undef
           => (get_isStale /\ get_data = state.result))'
       /\ \A v \in OkValues :
             (QueryData(v) /\ options.keepPreviousData) => (~get_isStale' /\ get_data' = v)
      ]_vars

\* C7: with a disabled client createDetachedQuery, decodeConvexLoad and
\* decodeConvexUser open no channel subscription, and the seed stays the
\* displayed data in every later state: no callback ever changes it.
C7_DisabledKeepsSeed ==
    disabled =>
        /\ kind = "detached" =>
              \A d \in Made :
                  /\ detached[d].sub = NoSub
                  /\ ~detached[d].called
                  /\ detached[d].data = detached[d].initialData
                  /\ origin = "decode" => detached[d].initialData = loadResult.data
                  /\ ~detached[d].hasManualOverride =>
                        detached_data(d) = detached[d].initialData
        /\ kind = "user" => (~userSub /\ current = seed /\ preloads = <<>>)

\* a decoded view under a disabled client whose override was set and released
\* again: the seed is displayed
C7_Witness ==
    /\ disabled
    /\ kind = "detached"
    /\ origin = "decode"
    /\ \E d \in Made :
          /\ detached[d].token
          /\ detached[d].manualOverride \notin {Undef, loadResult.data}
          /\ ~detached[d].hasManualOverride
          /\ detached_data(d) = loadResult.data

\* C8: decodeConvexLoad(encodeConvexLoad(v)) yields a view whose data before
\* the first channel callback equals v.data and whose subscription is for
\* v's function name and args; decoding the same envelope at two sites seeds
\* each view with the envelope's data before its own first callback.
C8_DecodeRoundTrip ==
    (kind = "detached" /\ origin = "decode") =>
        \A d \in Sites :
            /\ detached[d].made
            /\ ~disabled =>
                  /\ detached[d].sub # NoSub
                  /\ detached[d].sub.name = loadResult.refName
                  /\ convexToJson(detached[d].sub) = convexToJson(loadResult.args)
            /\ ~detached[d].called =>
                  /\ detached[d].data = loadResult.data
                  /\ ~detached[d].hasManualOverride => detached_data(d) = loadResult.data

\* the first site has had a push that changed its data, the second has had
\* no callback yet and still shows the envelope's data
C8_Witness ==
    /\ kind = "detached"
    /\ origin = "decode"
    /\ detached["first"].called
    /\ detached_data("first") # loadResult.data
    /\ ~detached["second"].called
    /\ detached_data("second") = loadResult.data
    /\ detached["second"].sub.name = loadResult.refName

C10_SwapGating ==
    [][/\ \A r \in Users :
             UserPush(r) =>
                IF r.image \notin {"absent", ""} /\ r.image # current.image
                THEN current' = current /\ preloads' = Append(preloads, r)
                ELSE current' = r /\ preloads' = preloads
       /\ \A i \in 1..MaxPreloads, o \in {"onload", "onerror"} :
             PreloadSettled(i, o) => current' = preloads[i]
       /\ current' # current =>
             \/ \E i \in 1..Len(preloads) :
                   current' = preloads[i] /\ Len(preloads') = Len(preloads) - 1
             \/ current'.image \in {"absent", "", current.image} /\ preloads' = preloads
      ]_vars

\* the pushed user with a new image waits for its preload while the seed is
\* still displayed
C10_Witness ==
    /\ kind = "user"
    /\ Len(preloads) = 1
    /\ current = seed
    /\ preloads[1].image \notin {"absent", "", current.image}
    /\ preloads[1].name # current.name

\* C11: a push whose result is null never changes the displayed user: the
\* seed stays displayed before the first real push, the last displayed user
\* after real pushes; no preload is started and the user is never null.
C11_NullPushIgnored ==
    [][/\ UserPush(Null) => (current' = current /\ preloads' = preloads)
       /\ current' \in Users
      ]_vars

\* a null push arrived after a real push had replaced the seed; the pushed
\* user is still displayed
C11_Witness ==
    /\ kind = "user"
    /\ lastEvent = "null"
    /\ current # seed
    /\ current \in Users

\* C12: every gated swap eventually commits, given that each started preload
\* ends with load or error: a user waiting for its preload eventually is the
\* displayed user, and onerror commits the swap exactly as onload does.
C12_GatedSwapCommits ==
    /\ \A r \in Users :
          (\E i \in 1..Len(preloads) : preloads[i] = r) ~> (current = r)
    /\ [][\A i \in 1..MaxPreloads, o \in {"onload", "onerror"} :
             PreloadSettled(i, o) => current' = preloads[i]]_vars

\* a failed preload has just committed a user whose image is new
C12_Witness ==
    /\ kind = "user"
    /\ lastEvent = "onerror"
    /\ current # seed
    /\ imageTruthy(current.image)
    /\ current.image # seed.image

\* C13: decodeConvexLoad of an envelope whose refName maps to no known query
\* reference throws at decode time: it never returns a view.
C13_UnknownRefThrows ==
    (kind = "detached" /\ origin = "decode" /\ envelope.load.refName \notin KnownRefs) =>
        \A d \in Sites : ~detached[d].made

\* C14: the encoders recognise envelopes by their marker, not by class
\* identity: encodeConvexLoad returns {refName, args, data} for every value
\* carrying __convexLoad, encodeConvexUser returns {data} without the marker
\* for every value carrying __convexUser, and each returns false for every
\* other value, null included.
C14_EncodersRecognizeByTag ==
    kind = "encode" =>
        /\ envelope.load # Pending =>
              envelope.load =
                 IF "__convexLoad" \in DOMAIN loadResult
                 THEN [refName |-> loadResult.refName, args |-> loadResult.args,
                       data |-> loadResult.data]
                 ELSE NotHandled
        /\ envelope.user # Pending =>
              envelope.user =
                 IF "__convexUser" \in DOMAIN loadResult
                 THEN [data |-> [id |-> loadResult.id, name |-> loadResult.name,
                                 image |-> loadResult.image]]
                 ELSE NotHandled

\* C15: each refresh() on a non-skipped convexQuery view has the subscription
\* effect run again: the listener it held is disposed and a new one is
\* registered for the identical args (enabled client); on a skipped view the
\* re-run registers none.
C15_RefreshResubscribes ==
    [][/\ (QueryRefresh /\ ~destroyed) => dirty'
       /\ (RunEffects /\ args # SKIP /\ ~disabled) =>
             /\ unsub' \notin {0, unsub}
             /\ Listener("view", args, unsub') \in channel'
             /\ unsub # 0 => Listener("view", sub, unsub) \notin channel'
             /\ sub' = args
       /\ (RunEffects /\ args = SKIP) =>
             /\ sub' = NoSub
             /\ unsub' = 0
             /\ unsub # 0 => Listener("view", sub, unsub) \notin channel'
             /\ ViewSubs' \subseteq ViewSubs
      ]_vars

\* the view holds its second listener for the args it was created with,
\* which it has never seen change
C15_Witness ==
    /\ kind = "query"
    /\ ~dirty
    /\ ~destroyed
    /\ args = initialArgs
    /\ ~state.haveArgsEverChanged
    /\ sub = args
    /\ unsub = 2
    /\ ViewSubs = {Listener("view", args, 2)}

\* C16: refresh() on a createDetachedQuery view is a no-op: data, error and
\* the override are as before, and no subscription is disposed or opened.
C16_DetachedRefreshNoOp ==
    [][\A d \in Sites : DetachedRefresh(d) => detached' = detached]_vars

\* a view with a pushed value, an error and an override installed, on which
\* refresh() changes nothing
C16_Witness ==
    /\ kind = "detached"
    /\ \E d \in Made :
          /\ detached[d].sub # NoSub
          /\ detached[d].data # detached[d].initialData
          /\ detached[d].error # Undef
          /\ detached[d].hasManualOverride
          /\ ENABLED DetachedRefresh(d)

\* C17: while a convexQuery view's args resolve to skip (and its effects have
\* run) the view holds no listener: created with skip it registers none,
\* switched to skip it disposes the one it held and registers no other.
C17_SkipHoldsNoSubscription ==
    (kind = "query" /\ isSkipped /\ ~dirty) =>
        /\ ViewSubs = {}
        /\ sub = NoSub
        /\ unsub = 0

\* a view that received results for non-skip args and was then switched to
\* skip
C17_Witness ==
    /\ kind = "query"
    /\ ~disabled
    /\ ~dirty
    /\ ~destroyed
    /\ isSkipped
    /\ initialArgs # SKIP
    /\ state.lastResult # Undef
    /\ state.argsForLastResult = SKIP
    /\ ViewSubs = {}

\* C18: a convexQuery view holds at most one listener at any time, over any
\* args changes, skip/unskip transitions and refresh() calls: the one the
\* subscription effect registered on its last run.
C18_AtMostOneSubscription ==
    kind = "query" =>
        /\ Cardinality(ViewSubs) <= 1
        /\ ViewSubs \subseteq {Listener("view", sub, unsub)}

\* a view that was skipped, has unskipped to the second argument set and was
\* refreshed there holds exactly one listener
C18_Witness ==
    /\ kind = "query"
    /\ ~dirty
    /\ state.haveArgsEverChanged
    /\ initialArgs = SKIP
    /\ state.argsForLastResult = ArgsOf(2)
    /\ sub = ArgsOf(2)
    /\ unsub = 2
    /\ ViewSubs = {Listener("view", ArgsOf(2), 2)}

\* C19: tearing down a convexQuery view's scope runs the disposer of its
\* listener: a torn-down view holds none and no callback reaches it; a second
\* view listening for the same args keeps its listener and keeps receiving
\* values until it is disposed itself.
C19_TeardownDisposes ==
    [][/\ destroyed' =>
             /\ ViewSubs' = {}
             /\ sub' = NoSub
       /\ destroyed =>
             /\ state'.result = state.result
             /\ state'.lastResult = state.lastResult
             /\ state'.argsForLastResult = state.argsForLastResult
       /\ (Teardown \/ RunEffects) => (PeerSub \in channel' <=> PeerSub \in channel)
       /\ LET v == peerData'
          IN  (v \in OkValues /\ PeerData(v)) => state' = state
      ]_vars

\* both views listened for the same args and received 1; the first was torn
\* down, the second is still listening and has received 2 since
C19_Witness ==
    /\ kind = "query"
    /\ destroyed
    /\ args = ArgsOf(1)
    /\ initialArgs = ArgsOf(1)
    /\ ~state.haveArgsEverChanged
    /\ state.result = Ok(1)
    /\ PeerSub \in channel
    /\ peerData = Ok(2)
    /\ ViewSubs = {}

\* C20: the subscription createDetachedQuery opens is never disposed by an
\* operation on the view: with an enabled client every view made keeps the
\* subscription for its function and args in every state, so n decode or
\* convexLoad calls leave n subscriptions open.
C20_DetachedNeverDisposed ==
    (kind = "detached" /\ ~disabled) =>
        /\ \A d \in Made :
              /\ detached[d].sub # NoSub
              /\ origin = "decode" =>
                    detached[d].sub = subscription(envelope.load.refName, envelope.load.args)
        /\ Cardinality({d \in Sites : detached[d].sub # NoSub}) = Cardinality(Made)

\* both decoded views still hold their subscription after one of them has
\* had an error and an override that is no longer installed
C20_Witness ==
    /\ kind = "detached"
    /\ origin = "decode"
    /\ Cardinality({d \in Sites : detached[d].sub # NoSub}) = 2
    /\ \E d \in Made :
          /\ detached[d].error # Undef
          /\ detached[d].token
          /\ detached[d].manualOverride # Undef
          /\ ~detached[d].hasManualOverride

\* C21: withOverride(f) on a view displaying d makes data equal f(d) and hands
\* out a release token; the override stays displayed until release() or the
\* next channel callback (the effects running, args changing and refresh()
\* leave it); after release() the view shows its server-derived value, the
\* one it would show with no override stored.
C21_WithOverrideShowsUpdate ==
    [][/\ kind = "query" =>
             /\ \A f \in Updates :
                   (get_data # Undef /\ QueryWithOverride(f))
                   => (get_data' = update(f, get_data) /\ tokens')
             /\ (state.hasManualOverride /\ (state' = state \/ (dirty /\ ~dirty')))
                => (state'.hasManualOverride /\ get_data' = get_data)
             /\ QueryRelease
                => (~state'.hasManualOverride
                      /\ get_data' = (IF instanceofError(resolvedResult)' THEN Undef
                                      ELSE resolvedResult'))
       /\ kind = "detached" =>
             \A d \in Sites :
                /\ \A f \in Updates :
                      (detached_data(d) # Undef /\ DetachedWithOverride(d, f))
                      => (detached_data(d)' = update(f, detached_data(d))
                            /\ detached'[d].token)
                /\ (detached[d].hasManualOverride
                      /\ (DetachedRefresh(d) \/ detached'[d] = detached[d]))
                   => (detached'[d].hasManualOverride
                         /\ detached_data(d)' = detached_data(d))
                /\ DetachedRelease(d) => detached_data(d)' = detached'[d].data
      ]_vars

\* C29: loading and isLoading of every view are true exactly when the view is
\* not skipped and its data getter and its error getter both return undefined
\* (a detached view is never skipped).
C29_LoadingIffNothingToShow ==
    /\ kind = "query" =>
          /\ get_isLoading <=> (~isSkipped /\ get_data = Undef /\ get_error = Undef)
          /\ get_loading <=> (~isSkipped /\ get_data = Undef /\ get_error = Undef)
    /\ kind = "detached" =>
          \A d \in Made :
             detached_isLoading(d)
             <=> (detached_data(d) = Undef /\ detached_error(d) = Undef)

\* C30: isStale of a convexQuery view is true exactly when the view is not
\* skipped, there is no sync result for the current args, keepPreviousData is
\* on, the current args differ from the args of the last resolved result, and
\* what is displayed is the previous-result fallback, not a manual override.
C30_StaleIffFallbackShown ==
    kind = "query" =>
       (get_isStale <=>
          /\ ~isSkipped
          /\ syncResult = Undef
          /\ options.keepPreviousData
          /\ ~sameArgsAsLastResult
          /\ ~state.hasManualOverride
          /\ state.lastResult # Undef
          /\ resolvedResult = state.lastResult)

\* C22: pending of a convexCommand and of a convexForm instance equals the
\* number of mutation calls that have started and not yet settled, whatever
\* the interleaving of calls that succeed or fail; it is never negative and is
\* 0 when no call is in flight.
C22_PendingCountsInFlight ==
    /\ kind = "command" =>
          /\ pending(command) = Cardinality(InFlight(command))
          /\ pending(command) >= 0
          /\ InFlight(command) = {} => pending(command) = 0
    /\ kind = "form" =>
          /\ form.pendingCount = Cardinality(Mutating(form))
          /\ form.pendingCount >= 0
          /\ Mutating(form) = {} => form.pendingCount = 0

\* two overlapping calls of one command, the first rejected while the second
\* is still in flight: pending reads 1
C22_Witness ==
    /\ kind = "command"
    /\ command.calls[1].phase = "settled"
    /\ command.calls[1].outcome = "rejected"
    /\ command.calls[2].phase = "inflight"
    /\ pending(command) = 1

\* C23: for command(args).updates(q1, ..., qn) no release() runs while the
\* mutation is in flight; once the promise that .updates() returned has
\* settled, the release() of every passed token has run exactly once (never
\* more), whether the mutation fulfilled or rejected, and that promise has
\* the mutation's outcome.
C23_ReleaseAfterSettle ==
    kind = "command" =>
       \A i \in 1..MaxCalls :
          LET c == command.calls[i]
          IN  c.chained =>
                 /\ \A k \in 1..Len(c.queries) :
                       /\ c.released[k] <= 1
                       /\ c.released[k] > 0 => c.phase = "settled"
                       /\ (c.returned # "pending" /\ c.queries[k] = "token")
                          => c.released[k] = 1
                 /\ c.returned # "pending" =>
                       (c.phase = "settled" /\ c.returned = c.outcome)

\* a call with two tokens whose mutation rejected: both were released once
\* and the returned promise rejected
C23_Witness ==
    /\ kind = "command"
    /\ command.client
    /\ command.calls[1].queries = <<"token", "token">>
    /\ command.calls[1].outcome = "rejected"
    /\ command.calls[1].returned = "rejected"
    /\ command.calls[1].released = <<1, 1>>

\* C24: over any sequence of initConvex and setupConvex calls, every call
\* after the first successful one returns the same client and leaves the
\* stored URL as it is; a call with an empty or non-string URL before
\* initialization throws and leaves the singleton unset; getConvexClient and
\* getConvexUrl throw until the first successful initialization (which is
\* when _client is set).
C24_InitConvexIdempotent ==
    [][kind = "client" =>
          /\ \A url \in UrlInputs :
                (_client # NullClient /\ (InitConvexCall(url) \/ SetupConvexCall(url)))
                => (~returned'.threw /\ returned'.client = _client
                      /\ _client' = _client /\ _url' = _url)
          /\ \A url \in {Str(""), NotAString} :
                (_client = NullClient /\ InitConvexCall(url))
                => (returned'.threw /\ _client' = NullClient /\ _url' = _url)
          /\ (_client = NullClient /\ GetConvexClientCall) => returned'.threw
          /\ (_client = NullClient /\ GetConvexUrlCall) => returned'.threw
      ]_vars

C26_ConvexLoadUsesRequestToken ==
    kind = "server" =>
       \A r \in 1..MaxRequests :
          (requests[r].phase = "run" /\ requests[r].fn \in {"convexLoad", "serverQuery"})
          => requests[r].auth = requests[r].convexToken

\* C27: the effect of setupConvexAuth calls clearAuth only when there is no
\* session data and the session is not pending; while the session is
\* pending, auth the client holds (from initialToken or a session) is not
\* cleared.
C27_ClearAuthOnlyWhenAbsent ==
    [][kind = "auth" =>
          /\ (AuthEffect /\ auth'.lastCall = "clearAuth")
             => (~auth.sessionData /\ ~auth.sessionPending)
          /\ (auth.sessionPending /\ auth.clientAuth # "none")
             => auth'.clientAuth # "none"
      ]_vars

\* initialToken was given, the session turned out absent, and the effect
\* cleared the pre-authentication
C27_Witness ==
    /\ kind = "auth"
    /\ auth.initialToken
    /\ auth.lastCall = "clearAuth"
    /\ auth.clientAuth = "none"
    /\ ~auth.sessionData
    /\ ~auth.sessionPending

\* C28: a submit of a convexForm sends the mutation only for data that
\* passes the form's schema; for data with issues the issues are stored and
\* no mutation is sent, whatever attaches, detaches and submits came before.
C28_InvalidDataNeverSent ==
    kind = "form" =>
       /\ "invalid" \notin form.sent
       /\ \A k \in 1..MaxSubmits :
             form.submits[k].phase = "mutating" => form.submits[k].data = "valid"

\* C31: a convexQuery view was created with initialData; its args change for
\* the first time while no server value has replaced the seed, and the client
\* holds no result for the new args yet: data is still the seed and the view
\* is not loading.
C31_SeedKeptAtFirstChange ==
    (/\ kind = "query"
     /\ initialArgs # SKIP
     /\ options.initialData # Undef
     /\ args # SKIP
     /\ ~argsKeyEqual(initialArgs, args)
     /\ ~state.hasManualOverride
     /\ localResult = Undef
     /\ state.result = options.initialData
     /\ state.lastResult \in {Undef, options.initialData}
     /\ state.argsForLastResult \in {NoArgs, initialArgs})
    => (get_data = options.initialData /\ ~get_isLoading)

\* C32: with keepPreviousData, once a server value R other than the seed has
\* replaced the seed and the args have changed from their initial value,
\* the view shows R while the current args have no result yet - never the
\* seed, also after the args changed back to their initial value.
C32_SeedNeverReused ==
    (/\ kind = "query"
     /\ options.keepPreviousData
     /\ options.initialData # Undef
     /\ args # SKIP
     /\ ~argsKeyEqual(initialArgs, args) \/ state.haveArgsEverChanged
     /\ ~state.hasManualOverride
     /\ localResult = Undef
     /\ state.result \in OkValues
     /\ truthy(state.result)
     /\ state.result # options.initialData)
    => (get_data = state.result /\ get_data # options.initialData)

\* C33: decodeConvexUser applies the pushes in the order of the channel:
\* when no image preload is pending the displayed user is the most recent
\* non-null push, and the completion of a preload never replaces the most
\* recent push on display by an earlier one.
C33_PushOrderKept ==
    /\ [](kind = "user" =>
             ((preloads = <<>> /\ lastPush # Null) => current = lastPush))
    /\ [][\A i \in 1..MaxPreloads, o \in {"onload", "onerror"} :
             (PreloadSettled(i, o) /\ current = lastPush) => current' = current]_vars

\* C34: the release() of a withOverride token removes only the override its
\* own withOverride call installed: when set() or a second withOverride
\* installs an override while an earlier token is outstanding, that token's
\* release() leaves the later override installed and displayed.
C34_ReleaseRemovesOwnOverride ==
    [][/\ kind = "query" =>
             /\ \A v \in OkValues :
                   (tokens /\ QuerySet(v))
                   => (release(state').hasManualOverride
                         /\ release(state').manualOverride = v)
             /\ \A f \in Updates :
                   (tokens /\ get_data # Undef /\ QueryWithOverride(f))
                   => (release(state').hasManualOverride
                         /\ release(state').manualOverride = update(f, get_data))
       /\ kind = "detached" =>
             \A d \in Sites :
                /\ \A v \in OkValues :
                      (detached[d].token /\ DetachedSet(d, v))
                      => (detachedRelease(detached'[d]).hasManualOverride
                            /\ detachedRelease(detached'[d]).manualOverride = v)
                /\ \A f \in Updates :
                      (detached[d].token /\ detached[d].data # Undef
                          /\ DetachedWithOverride(d, f))
                      => detachedRelease(detached'[d]).hasManualOverride
      ]_vars

\* C35: convexQuery and createDetachedQuery compose overrides alike: when
\* withOverride(f) is called on a view that displays an override O (from an
\* earlier set or withOverride), either kind of view then displays f(O), the
\* update of the data it displayed.
C35_OverridesComposeAlike ==
    [][/\ kind = "query" =>
             \A f \in Updates :
                (state.hasManualOverride /\ get_data # Undef /\ QueryWithOverride(f))
                => get_data' = update(f, state.manualOverride)
       /\ kind = "detached" =>
             \A d \in Sites, f \in Updates :
                (detached[d].hasManualOverride /\ detached_data(d) # Undef
                    /\ DetachedWithOverride(d, f))
                => detached_data(d)' = update(f, detached[d].manualOverride)
      ]_vars

\* C36: whenever the Better Auth session is absent and not pending and
\* the effect has run on that report, useConvexAuth().isAuthenticated is
\* false, also when setupConvexAuth was given an initialToken.
C36_SignedOutNotAuthenticated ==
    (kind = "auth" /\ ~auth.sessionData /\ ~auth.sessionPending /\ ~auth.dirty)
    => ~useConvexAuth.isAuthenticated

\* C37: after the session became absent and the effect cleared the auth, the
\* stored Convex auth flag stays null until a new session appears: no
\* onChange callback registered earlier, by the pre-authentication or by an
\* earlier run of the effect, writes it.
C37_LateCallbackIgnored ==
    /\ [](kind = "auth" =>
             ((~auth.sessionData /\ ~auth.sessionPending /\ ~auth.dirty)
              => auth.convexAuthed = "null"))
    /\ [][(kind = "auth" /\ auth.lastCall = "clearAuth" /\ ~auth.sessionData
              /\ ~auth'.sessionData)
          => auth'.convexAuthed = auth.convexAuthed]_vars

\* C39: a convexForm instance is attached to at most one <form> element at
\* a time: attaching it while it is attached throws and leaves the attached
\* element in place; the attachment's cleanup detaches it, and a detached
\* instance takes the element it is attached to next without throwing.
C39_SingleAttachment ==
    [][kind = "form" =>
          /\ \A el \in Elements :
                FormAttach(el) =>
                   IF form.element # "null"
                   THEN form'.threw /\ form'.element = form.element
                   ELSE ~form'.threw /\ form'.element = el
          /\ FormDetach => form'.element = "null"
          /\ (form'.element # form.element /\ form.element # "null")
             => form'.element = "null"
      ]_vars

\* a second attach has thrown while the first element is still attached
C39_Witness ==
    /\ kind = "form"
    /\ form.threw
    /\ form.element = "form1"

\* C38: for(id) hands every caller the instance registered under the id;
\* once every component that obtained an instance is destroyed and the
\* deferred removals have run, the entry's count is 0 and the id is no longer
\* registered; a removal that finds the count raised by a for(id) call made
\* after the teardown leaves the instance registered.
C38_RegistryRefCount ==
    /\ [](kind = "registry" =>
             \A id \in Ids :
                LET e == registry.instances[id] IN
                (/\ e # 0
                 /\ registry.ticks = {}
                 /\ \A c \in Components :
                       registry.components[c].instance = e
                       => registry.components[c].destroyed)
                => FALSE)
    /\ [][kind = "registry" =>
             /\ \A c \in Components, id \in Ids :
                   (ForCall(c, id) /\ registry.instances[id] # 0)
                   => /\ registry'.components[c].instance = registry.instances[id]
                      /\ registry'.instances[id] = registry.instances[id]
             /\ \A c \in Components :
                   LET e == registry.components[c].instance IN
                   (HolderDestroyed(c)
                      /\ \A o \in Components :
                            (o # c /\ registry.components[o].instance = e)
                            => registry.components[o].destroyed)
                   => registry'.count[e] = 0
             /\ \A t \in [id : Ids, entry : Components] :
                   (AfterTick(t) /\ registry.count[t.entry] > 0)
                   => registry'.instances[t.id] = registry.instances[t.id]
      ]_vars

====
